---- MODULE Spec2Model ----
(***************************************************************************)
(* Model of WebglViewerComponent and ThreeViewer (iconshop).               *)
(*                                                                         *)
(* The component's asynchronous initialisation (ngAfterViewInit) is split  *)
(* at its two await points; every continuation, timer callback, loader     *)
(* callback, animation frame and lifecycle hook is one atomic action, as   *)
(* the browser's single-threaded event loop runs it.                       *)
(*                                                                         *)
(* The definitions follow the multi-model version of the component (three  *)
(* model paths, 16 configs).  The single-model version under               *)
(* src/app/webgl-scene has the same animate, addModel, update, fallback    *)
(* and ngOnDestroy logic.                                                  *)
(***************************************************************************)
EXTENDS Integers, Sequences, FiniteSets, TLC

\* ---------------------------------------------------------------- bounds
MaxFrames == 2          \* animation frames the browser delivers
MaxPolls == 2           \* unsuccessful 50 ms re-polls of checkThreeJsLoaded
ExtraContainers == 1    \* containers the view may hold beyond the configs
MaxResizes == 2         \* resize events the window dispatches

\* ------------------------------------------------------ program constants
GLB_MODEL_PATH_G == "/glbfiles/googlelogo.glb"
GLB_MODEL_PATH_EDGE == "/glbfiles/edge.glb"
GLB_MODEL_PATH_OPER == "/glbfiles/opera.glb"
NumG == 6
NumEdge == 6
NumOper == 4
RotStep == 7            \* rotation.y += 0.007, in thousandths of a radian

\* allModelConfigs: 6 Google, 6 Edge and 4 Opera configs, in this order
allModelConfigs ==
  [i \in 1..(NumG + NumEdge + NumOper) |->
     IF i <= NumG
       THEN [index |-> 1 + (i - 1), scale |-> 2, modelPath |-> GLB_MODEL_PATH_G]
     ELSE IF i <= NumG + NumEdge
       THEN [index |-> 6 + (i - NumG - 1), scale |-> 2,
             modelPath |-> GLB_MODEL_PATH_EDGE]
       ELSE [index |-> 12 + (i - NumG - NumEdge - 1), scale |-> 1,
             modelPath |-> GLB_MODEL_PATH_OPER]]

NumConfigs == Len(allModelConfigs)

VARIABLES
  globalsReady,   \* THREE, GLTFLoader and OrbitControls are all defined
  nContainers,    \* allRendererContainers.length
  pc,             \* position of ngAfterViewInit
  checkResolved,  \* the promise of checkThreeJsLoaded has resolved
  pollPending,    \* a setTimeout(check, 50) is outstanding
  polls,          \* re-polls scheduled so far
  resolveCalls,   \* calls of resolve() made by check()
  loads,          \* one entry per loadModel call (modelPromises)
  settleOrder,    \* indexes of loads in the order their callbacks fired
  objects,        \* the THREE.Object3D instances, by identity
  masterModels,   \* the Map path -> loaded master model
  threeViewers,   \* every ThreeViewer ever constructed, by identity
  containers,     \* per container: the viewers whose canvas is its child
  viewers,        \* this.viewers
  isLoaded,       \* this.isLoaded
  animateId,      \* this.animateId
  rafPending,     \* animation-frame requests outstanding in the browser
  nextRafId,      \* the id requestAnimationFrame returns next
  frames,         \* animation frames executed
  destroyed,      \* ngOnDestroy has run
  rendered,       \* the afterNextRender callback has run
  windowListeners,\* the resize listeners registered on window
  resizeEvents    \* resize events dispatched so far

vars == <<globalsReady, nContainers, pc, checkResolved, pollPending, polls,
          resolveCalls,
          loads, settleOrder, objects, masterModels, threeViewers,
          containers, viewers, isLoaded, animateId, rafPending, nextRafId,
          frames, destroyed, rendered, windowListeners, resizeEvents>>

\* ------------------------------------------------------------- helpers
\* the element of a one-element set; used to bind the state a loop hands to
\* its next iteration as a value
TheOnly(S) == CHOOSE x \in S : TRUE

RECURSIVE Dedup(_, _)
Dedup(s, acc) ==
  IF s = <<>> THEN acc
  ELSE IF \E k \in 1..Len(acc) : acc[k] = Head(s)
         THEN Dedup(Tail(s), acc)
         ELSE Dedup(Tail(s), Append(acc, Head(s)))

\* this.allModelConfigs.map(c => c.modelPath), with no Set in between
AllModelPaths ==
  [i \in 1..NumConfigs |-> allModelConfigs[i].modelPath]

\* Array.from(new Set(this.allModelConfigs.map(c => c.modelPath)))
UniqueModelPaths ==
  Dedup([i \in 1..NumConfigs |-> allModelConfigs[i].modelPath], <<>>)

\* the condition of check() in checkThreeJsLoaded
CheckPasses(ready) == ready

\* check() giving up after a failed test instead of scheduling another
NoRepoll(passes) == FALSE

\* check() calls setTimeout(check, 50) exactly when its test fails
PollAgain(passes) == ~passes

\* the error callback of loader.load rejecting instead of falling back
LoadErrorRejects == [state |-> "rejected", kind |-> "none"]

\* the error callback of loader.load: resolve(fallbackMesh)
LoadErrorOutcome == [state |-> "resolved", kind |-> "fallback"]

\* the success callback of loader.load: resolve(gltf.scene)
LoadSuccessOutcome == [state |-> "resolved", kind |-> "gltf"]

AnyRejected(ls) == \E i \in 1..Len(ls) : ls[i].state = "rejected"

\* a race: the continuation runs as soon as one load has settled
AnySettled(ls) == \E i \in 1..Len(ls) : ls[i].state = "resolved"

\* Promise.all(modelPromises) fulfils when every promise has fulfilled
AllSettled(ls) == \A i \in 1..Len(ls) : ls[i].state = "resolved"

\* results collected in the order the loads completed
LoadedInCompletionOrder(ls, order) ==
  [i \in 1..Len(ls) |-> IF i <= Len(order) THEN ls[order[i]].result ELSE 0]

\* loadedModels: the results of Promise.all, in the order of the promises
PromiseAll(ls, order) ==
  [i \in 1..Len(ls) |-> ls[i].result]

\* uniqueModelPaths.forEach((path, index) => masterModels.set(path, loadedModels[index]))
MasterModelsMap(ls, loaded) ==
  [p \in {ls[i].path : i \in 1..Len(ls)} |->
     LET last == CHOOSE i \in 1..Len(ls) :
                   /\ ls[i].path = p
                   /\ \A j \in 1..Len(ls) : ls[j].path = p => j <= i
     IN loaded[last]]

\* a lookup under a key that is no model path: Map.get returns undefined
MasterModelWrongKey(mm, config) ==
  IF "displayName" \in DOMAIN mm THEN mm["displayName"] ELSE 0

\* masterModels.get(config.modelPath); 0 stands for undefined
MasterModelFor(mm, config) ==
  IF config.modelPath \in DOMAIN mm THEN mm[config.modelPath] ELSE 0

\* the guard is missing: the map over the configs always runs
NoContainerGuard(n) == FALSE

\* containerElements.length < this.allModelConfigs.length
MissingContainers(n) == n < NumConfigs

\* addModel keeping the loaded model itself instead of a clone
AddModelNoClone(objs, loadedModel, config) ==
  [objs  |-> [objs EXCEPT ![loadedModel].scale = config.scale],
   model |-> loadedModel]

\* ThreeViewer.addModel: this.model = loadedModel.clone(), scaled by config
AddModel(objs, loadedModel, config) ==
  [objs  |-> Append(objs, [kind    |-> objs[loadedModel].kind,
                           path    |-> objs[loadedModel].path,
                           rotY    |-> objs[loadedModel].rotY,
                           scale   |-> config.scale,
                           cloneOf |-> loadedModel]),
   model |-> Len(objs) + 1]

\* new ThreeViewer(config, container): the fields of a fresh viewer
NewThreeViewer(configIdx, container) ==
  [config |-> configIdx, container |-> container, model |-> 0,
   disposed |-> FALSE, updates |-> 0, resizes |-> 0]

\* this.allModelConfigs.map((config, index) => { ... }) from config i on.
\* st carries the heap, the viewers constructed, the DOM and the result
\* list; threw is set when a constructor throws, which ends the map.
RECURSIVE CreateViewers(_, _, _, _, _)
CreateViewers(i, st, mm, nCont, ready) ==
  IF i > NumConfigs \/ st.threw THEN st
  ELSE IF ~ready \/ i > nCont
    \* "Three.js not loaded." or container.clientWidth of undefined
    THEN [st EXCEPT !.threw = TRUE]
    ELSE
      LET config == allModelConfigs[i]
          vid == Len(st.threeViewers) + 1
          masterModel == MasterModelFor(mm, config)
          am == IF masterModel # 0
                  THEN AddModel(st.objects, masterModel, config)
                  ELSE [objs |-> st.objects, model |-> 0]
          viewer == [NewThreeViewer(i, i) EXCEPT !.model = am.model]
      IN TheOnly({CreateViewers(i + 1, next, mm, nCont, ready) :
           next \in {[objects      |-> am.objs,
                      threeViewers |-> Append(st.threeViewers, viewer),
                      containers   |-> [st.containers EXCEPT
                                          ![i] = @ \cup {vid}],
                      list         |-> Append(st.list, vid),
                      threw        |-> FALSE]}})

\* a loop that stops one viewer short
RECURSIVE UpdateAllButLast(_, _, _)
UpdateAllButLast(vs, tvs, objs) ==
  IF Len(vs) <= 1 THEN [tvs |-> tvs, objs |-> objs]
  ELSE LET v == Head(vs)
           m == tvs[v].model
       IN TheOnly({UpdateAllButLast(next[1], next[2], next[3]) :
            next \in {<<Tail(vs),
                        [tvs EXCEPT ![v].updates = @ + 1],
                        IF m # 0 THEN [objs EXCEPT ![m].rotY = @ + RotStep]
                                 ELSE objs>>}})

\* this.viewers.forEach(viewer => viewer.update())
RECURSIVE UpdateAll(_, _, _)
UpdateAll(vs, tvs, objs) ==
  IF vs = <<>> THEN [tvs |-> tvs, objs |-> objs]
  ELSE LET v == Head(vs)
           m == tvs[v].model
       IN TheOnly({UpdateAll(next[1], next[2], next[3]) :
            next \in {<<Tail(vs),
                        [tvs EXCEPT ![v].updates = @ + 1],
                        IF m # 0 THEN [objs EXCEPT ![m].rotY = @ + RotStep]
                                 ELSE objs>>}})

\* dispose() calling removeChild without testing parentNode: the call
\* throws once the canvas is detached
DisposeUnguarded(v, tvs, cont) ==
  LET c == tvs[v].container
      attached == v \in cont[c]
  IN [tvs   |-> [tvs EXCEPT ![v].disposed = TRUE],
      cont  |-> IF attached THEN [cont EXCEPT ![c] = @ \ {v}] ELSE cont,
      threw |-> ~attached]

\* ThreeViewer.dispose(): controls and renderer are disposed, and the canvas
\* is removed from its parent when it has one
Dispose(v, tvs, cont) ==
  LET c == tvs[v].container
      attached == v \in cont[c]      \* this.renderer.domElement.parentNode
  IN [tvs   |-> [tvs EXCEPT ![v].disposed = TRUE],
      cont  |-> IF attached THEN [cont EXCEPT ![c] = @ \ {v}] ELSE cont,
      threw |-> FALSE]

\* this.viewers.forEach(viewer => viewer.dispose()); a throwing dispose()
\* ends the loop
RECURSIVE DisposeViewers(_, _)
DisposeViewers(vs, st) ==
  IF vs = <<>> \/ st.threw THEN st
  ELSE TheOnly({DisposeViewers(next[1], next[2]) :
         next \in {<<Tail(vs), Dispose(Head(vs), st.tvs, st.cont)>>}})

\* resizeListener = this.onResize.bind(this), one function object
ResizeListener == "resizeListener"

\* removeEventListener given a function bound anew, which is no listener
FreshBoundListener == "onResize.bind(this)"

\* the function ngOnDestroy passes to removeEventListener
RemovedListener == ResizeListener

\* onResize: this.viewers.forEach(viewer => viewer.handleResize())
OnResize(vs, tvs) ==
  [v \in 1..Len(tvs) |->
     [tvs[v] EXCEPT !.resizes =
        @ + Cardinality({k \in 1..Len(vs) : vs[k] = v})]]

\* ------------------------------------------------------------------ Init
Init ==
  /\ globalsReady \in BOOLEAN
  /\ nContainers \in 0..(NumConfigs + ExtraContainers)
  /\ pc = "idle"
  /\ checkResolved = FALSE
  /\ pollPending = FALSE
  /\ polls = 0
  /\ resolveCalls = 0
  /\ loads = <<>>
  /\ settleOrder = <<>>
  /\ objects = <<>>
  /\ masterModels = <<>>
  /\ threeViewers = <<>>
  /\ containers = [c \in 1..nContainers |-> {}]
  /\ viewers = <<>>
  /\ isLoaded = FALSE
  /\ animateId = 0
  /\ rafPending = {}
  /\ nextRafId = 1
  /\ frames = 0
  /\ destroyed = FALSE
  /\ rendered = FALSE
  /\ windowListeners = {}
  /\ resizeEvents = 0

\* --------------------------------------------------------------- actions

\* the scripts providing the Three.js globals finish loading
ScriptsLoaded ==
  /\ ~globalsReady
  /\ globalsReady' = TRUE
  /\ UNCHANGED <<nContainers, rendered, windowListeners, resizeEvents,
                 resolveCalls, pc, checkResolved, pollPending, polls, loads,
                 settleOrder, objects, masterModels, threeViewers, containers,
                 viewers, isLoaded, animateId, rafPending, nextRafId, frames,
                 destroyed>>

\* ngAfterViewInit up to its first await: checkThreeJsLoaded runs check()
NgAfterViewInit ==
  /\ pc = "idle"
  /\ ~destroyed
  /\ pc' = "awaitCheck"
  /\ IF CheckPasses(globalsReady)
       THEN checkResolved' = TRUE /\ resolveCalls' = resolveCalls + 1
       ELSE checkResolved' = FALSE /\ resolveCalls' = resolveCalls
  /\ pollPending' = PollAgain(CheckPasses(globalsReady))
  /\ UNCHANGED <<globalsReady, nContainers, rendered, windowListeners,
                 resizeEvents, polls, loads, settleOrder, objects,
                 masterModels, threeViewers, containers, viewers, isLoaded,
                 animateId, rafPending, nextRafId, frames, destroyed>>

\* the 50 ms timer fires and check() runs again
PollTimer ==
  /\ pollPending
  /\ IF CheckPasses(globalsReady)
       THEN /\ checkResolved' = TRUE
            /\ resolveCalls' = resolveCalls + 1
            /\ polls' = polls
       ELSE /\ polls < MaxPolls
            /\ polls' = polls + 1
            /\ UNCHANGED <<checkResolved, resolveCalls>>
  /\ pollPending' = PollAgain(CheckPasses(globalsReady))
  /\ UNCHANGED <<globalsReady, nContainers, rendered, windowListeners,
                 resizeEvents, pc, loads, settleOrder, objects, masterModels,
                 threeViewers, containers, viewers, isLoaded, animateId,
                 rafPending, nextRafId, frames, destroyed>>

\* the continuation after await checkThreeJsLoaded(): start the loads
StartLoads ==
  /\ pc = "awaitCheck"
  /\ checkResolved
  /\ pc' = "awaitLoads"
  /\ loads' = [i \in 1..Len(UniqueModelPaths) |->
                 [path |-> UniqueModelPaths[i], state |-> "pending",
                  event |-> "none", result |-> 0]]
  /\ UNCHANGED <<globalsReady, nContainers, rendered, windowListeners,
                 resizeEvents, resolveCalls, checkResolved, pollPending,
                 polls, settleOrder, objects, masterModels, threeViewers,
                 containers, viewers, isLoaded, animateId, rafPending,
                 nextRafId, frames, destroyed>>

\* a loader callback of load i fires with the given outcome
Settle(i, event, outcome) ==
  /\ i \in 1..Len(loads)
  /\ loads[i].state = "pending"
  /\ settleOrder' = Append(settleOrder, i)
  /\ IF outcome.state = "resolved"
       THEN /\ objects' = Append(objects,
                            [kind |-> outcome.kind, path |-> loads[i].path,
                             rotY |-> 0, scale |-> 1, cloneOf |-> 0])
            /\ loads' = [loads EXCEPT ![i].state = "resolved",
                                      ![i].event = event,
                                      ![i].result = Len(objects) + 1]
       ELSE /\ objects' = objects
            /\ loads' = [loads EXCEPT ![i].state = outcome.state,
                                      ![i].event = event]
  /\ UNCHANGED <<globalsReady, nContainers, rendered, windowListeners,
                 resizeEvents, resolveCalls, pc, checkResolved, pollPending,
                 polls, masterModels, threeViewers, containers, viewers,
                 isLoaded, animateId, rafPending, nextRafId, frames,
                 destroyed>>

LoadSuccess == \E i \in 1..Len(loads) : Settle(i, "success", LoadSuccessOutcome)

LoadError == \E i \in 1..Len(loads) : Settle(i, "error", LoadErrorOutcome)

\* the continuation after await Promise.all(modelPromises), to the end of
\* ngAfterViewInit, including the catch block
FinishInit ==
  /\ pc = "awaitLoads"
  /\ AnyRejected(loads) \/ AllSettled(loads)
  /\ IF AnyRejected(loads)
       THEN /\ pc' = "failed"
            /\ UNCHANGED <<masterModels, objects, threeViewers, containers,
                           viewers, isLoaded, animateId, rafPending,
                           nextRafId>>
       ELSE
         LET loadedModels == PromiseAll(loads, settleOrder)
             mm == MasterModelsMap(loads, loadedModels)
         IN /\ masterModels' = mm
            /\ IF MissingContainers(nContainers)
                 THEN /\ pc' = "aborted"
                      /\ UNCHANGED <<objects, threeViewers, containers,
                                     viewers, isLoaded, animateId, rafPending,
                                     nextRafId>>
                 ELSE
                   \E st \in {CreateViewers(1,
                               [objects      |-> objects,
                                threeViewers |-> threeViewers,
                                containers   |-> containers,
                                list         |-> <<>>,
                                threw        |-> FALSE],
                               mm, nContainers, globalsReady)} :
                      IF st.threw
                        THEN /\ pc' = "failed"
                             /\ objects' = st.objects
                             /\ threeViewers' = st.threeViewers
                             /\ containers' = st.containers
                             /\ UNCHANGED <<viewers, isLoaded, animateId,
                                            rafPending, nextRafId>>
                        ELSE
                          \* this.viewers = ...; isLoaded = true; animate()
                          \E up \in {UpdateAll(st.list, st.threeViewers,
                                                st.objects)} :
                             /\ pc' = "done"
                             /\ viewers' = st.list
                             /\ isLoaded' = TRUE
                             /\ animateId' = nextRafId
                             /\ rafPending' = rafPending \cup {nextRafId}
                             /\ nextRafId' = nextRafId + 1
                             /\ threeViewers' = up.tvs
                             /\ objects' = up.objs
                             /\ containers' = st.containers
  /\ UNCHANGED <<globalsReady, nContainers, rendered, windowListeners,
                 resizeEvents, resolveCalls, checkResolved, pollPending,
                 polls, loads, settleOrder, frames, destroyed>>

\* the browser runs a requested animation frame: animate()
Frame ==
  /\ frames < MaxFrames
  /\ \E id \in rafPending :
       \E up \in {UpdateAll(viewers, threeViewers, objects)} :
          /\ animateId' = nextRafId
          /\ rafPending' = (rafPending \ {id}) \cup {nextRafId}
          /\ nextRafId' = nextRafId + 1
          /\ threeViewers' = up.tvs
          /\ objects' = up.objs
  /\ frames' = frames + 1
  /\ UNCHANGED <<globalsReady, nContainers, rendered, windowListeners,
                 resizeEvents, resolveCalls, pc, checkResolved, pollPending,
                 polls, loads, settleOrder, masterModels, containers, viewers,
                 isLoaded, destroyed>>

\* ngOnDestroy, which Angular calls once
NgOnDestroy ==
  /\ ~destroyed
  /\ destroyed' = TRUE
  /\ rafPending' = IF animateId # 0 THEN rafPending \ {animateId}
                                    ELSE rafPending
  /\ \E st \in {DisposeViewers(viewers, [tvs   |-> threeViewers,
                                          cont  |-> containers,
                                          threw |-> FALSE])} :
       /\ threeViewers' = st.tvs
       /\ containers' = st.cont
       /\ windowListeners' = IF st.threw THEN windowListeners
                              ELSE windowListeners \ {RemovedListener}
  /\ UNCHANGED <<globalsReady, nContainers, rendered, resizeEvents,
                 resolveCalls, pc, checkResolved, pollPending, polls, loads,
                 settleOrder, objects, masterModels, viewers, isLoaded,
                 animateId, nextRafId, frames>>

\* the callback given to afterNextRender in the constructor; Angular drops
\* it when the component is destroyed before it has run
AfterNextRender ==
  /\ pc # "idle"
  /\ ~rendered
  /\ ~destroyed
  /\ rendered' = TRUE
  /\ windowListeners' = windowListeners \cup {ResizeListener}
  /\ UNCHANGED <<globalsReady, nContainers, resolveCalls, pc, checkResolved,
                 pollPending, polls, loads, settleOrder, objects,
                 masterModels, threeViewers, containers, viewers, isLoaded,
                 animateId, rafPending, nextRafId, frames, destroyed,
                 resizeEvents>>

\* the window dispatches a resize event to its registered listeners
Resize ==
  /\ resizeEvents < MaxResizes
  /\ resizeEvents' = resizeEvents + 1
  /\ threeViewers' = IF ResizeListener \in windowListeners
                       THEN OnResize(viewers, threeViewers)
                       ELSE threeViewers
  /\ UNCHANGED <<globalsReady, nContainers, resolveCalls, pc, checkResolved,
                 pollPending, polls, loads, settleOrder, objects,
                 masterModels, containers, viewers, isLoaded, animateId,
                 rafPending, nextRafId, frames, destroyed, rendered,
                 windowListeners>>

Next ==
  \/ ScriptsLoaded
  \/ NgAfterViewInit
  \/ PollTimer
  \/ StartLoads
  \/ LoadSuccess
  \/ LoadError
  \/ FinishInit
  \/ Frame
  \/ NgOnDestroy
  \/ AfterNextRender
  \/ Resize

Spec == Init /\ [][Next]_vars

\* The event loop runs every due timer, promise continuation and loader
\* callback; the scripts finish loading and every load reports.  Neither
\* ngOnDestroy nor animation frames are forced to happen.
FairSpec ==
  /\ Spec
  /\ WF_vars(ScriptsLoaded)
  /\ WF_vars(NgAfterViewInit)
  /\ WF_vars(PollTimer)
  /\ WF_vars(StartLoads)
  /\ WF_vars(LoadSuccess \/ LoadError)
  /\ WF_vars(FinishInit)

\* ------------------------------------------------------------ properties

ConfigPaths == {allModelConfigs[i].modelPath : i \in 1..NumConfigs}

\* the index of the load of path p
LoadOf(p) == CHOOSE i \in 1..Len(loads) : loads[i].path = p

\* the continuation after Promise.all has run
InitRan == pc \in {"done", "aborted", "failed"}

\* C1: after ngOnDestroy has run, every ThreeViewer the component has
\* constructed has been disposed, whatever the interleaving of ngOnDestroy
\* with the asynchronous initialisation.
C1_AllViewersDisposedAfterDestroy ==
  destroyed => \A v \in 1..Len(threeViewers) : threeViewers[v].disposed

\* C2: at most one animation-frame request of the component is pending in
\* every reachable state, and each executed frame calls update() exactly
\* once on every viewer of the viewers list.
C2_SingleSharedLoop ==
  /\ [](Cardinality(rafPending) <= 1)
  /\ [][frames' # frames =>
          /\ viewers' = viewers
          /\ \A k \in 1..Len(viewers) :
               threeViewers'[viewers[k]].updates
                 = threeViewers[viewers[k]].updates + 1]_vars

C2_Witness ==
  /\ frames >= 1
  /\ Len(viewers) = NumConfigs
  /\ Cardinality(rafPending) = 1
  /\ \A k \in 1..Len(viewers) : threeViewers[viewers[k]].updates = frames + 1

\* C3: during one initialisation loadModel is called exactly once for each
\* distinct model path of allModelConfigs, at most 3 calls in all, however
\* many configs reference a path.
C3_EachPathLoadedOnce ==
  /\ Len(loads) <= 3
  /\ \A i \in 1..Len(loads) : loads[i].path \in ConfigPaths
  /\ pc \notin {"idle", "awaitCheck"} =>
       \A p \in ConfigPaths :
         Cardinality({i \in 1..Len(loads) : loads[i].path = p}) = 1

C3_Witness ==
  /\ pc = "done"
  /\ Len(loads) = 3
  /\ Len(viewers) = NumConfigs

\* C4: every viewer holds its own clone of the loaded master model: no two
\* viewers share a model object, no viewer holds a master model, and the
\* rotation update() applies reaches only the viewer's own model, so a
\* model's rotation is that of its own viewer's updates and a master model
\* is never rotated.
C4_OwnClonePerViewer ==
  /\ \A v \in 1..Len(threeViewers) :
       threeViewers[v].model # 0 =>
         /\ \A w \in 1..Len(threeViewers) :
              w # v => threeViewers[w].model # threeViewers[v].model
         /\ \A i \in 1..Len(loads) : loads[i].result # threeViewers[v].model
         /\ objects[threeViewers[v].model].cloneOf # 0
         /\ objects[threeViewers[v].model].rotY
              = threeViewers[v].updates * RotStep
  /\ \A i \in 1..Len(loads) :
       loads[i].result # 0 =>
         /\ objects[loads[i].result].rotY = 0
         /\ objects[loads[i].result].cloneOf = 0

C4_Witness ==
  /\ frames >= 1
  /\ Len(viewers) = NumConfigs
  /\ \A k \in 1..Len(viewers) :
       /\ threeViewers[viewers[k]].model # 0
       /\ objects[threeViewers[viewers[k]].model].rotY = (frames + 1) * RotStep

\* C5: a model load never rejects; a failed load resolves with a fallback
\* mesh.  So, whichever paths fail, an initialisation that finds its
\* containers creates one viewer per config, sets isLoaded and starts the
\* animation loop, and each viewer's model is a clone of the fallback when
\* its path failed and of the real model when it succeeded.
C5_FallbackOnLoadError ==
  /\ \A i \in 1..Len(loads) :
       /\ loads[i].state # "rejected"
       /\ loads[i].event = "error" =>
            /\ loads[i].state = "resolved"
            /\ objects[loads[i].result].kind = "fallback"
       /\ loads[i].event = "success" =>
            /\ loads[i].state = "resolved"
            /\ objects[loads[i].result].kind = "gltf"
  /\ (InitRan /\ nContainers >= NumConfigs) =>
       /\ pc = "done"
       /\ Len(viewers) = NumConfigs
       /\ isLoaded
       /\ animateId # 0
       /\ \A k \in 1..Len(viewers) :
            LET m == threeViewers[viewers[k]].model
                l == loads[LoadOf(allModelConfigs[k].modelPath)]
            IN /\ m # 0
               /\ objects[m].cloneOf # 0
               /\ objects[objects[m].cloneOf].kind
                    = IF l.event = "error" THEN "fallback" ELSE "gltf"

C5_Witness ==
  /\ pc = "done"
  /\ Len(viewers) = NumConfigs
  /\ \E i \in 1..Len(loads) : loads[i].event = "error"
  /\ \E i \in 1..Len(loads) : loads[i].event = "success"

\* C6: once ngOnDestroy has run, no viewer's update() is executed again and
\* no animation-frame request of the component is pending or newly issued.
C6_NoActivityAfterDestroy ==
  [][destroyed' =>
       /\ rafPending' = {}
       /\ \A v \in 1..Len(threeViewers') :
            threeViewers'[v].updates
              = IF v <= Len(threeViewers) THEN threeViewers[v].updates
                                          ELSE 0]_vars

\* C7: when the view holds fewer renderer containers than there are model
\* configs, initialisation has no effect: no ThreeViewer is constructed,
\* the viewers list stays empty, isLoaded stays false and the animation
\* loop is never started.
C7_AbortOnMissingContainers ==
  nContainers < NumConfigs =>
    /\ threeViewers = <<>>
    /\ viewers = <<>>
    /\ \A c \in DOMAIN containers : containers[c] = {}
    /\ ~isLoaded
    /\ animateId = 0
    /\ rafPending = {}
    /\ frames = 0

C7_Witness ==
  /\ pc = "aborted"
  /\ nContainers > 0
  /\ nContainers < NumConfigs

\* C8: for every order in which the loads complete, the master model stored
\* for a path is the result of loading that path, and viewer i is built
\* from config i, attached to container i, and holds a clone of the master
\* model of config i's modelPath.
C8_ModelsMappedToPaths ==
  /\ pc \in {"done", "aborted"} =>
       /\ DOMAIN masterModels = ConfigPaths
       /\ \A p \in ConfigPaths :
            /\ masterModels[p] = loads[LoadOf(p)].result
            /\ masterModels[p] # 0
            /\ objects[masterModels[p]].path = p
  /\ \A k \in 1..Len(viewers) :
       LET v == threeViewers[viewers[k]]
       IN /\ v.config = k
          /\ v.container = k
          /\ ~v.disposed => viewers[k] \in containers[k]
          /\ v.model # 0
          /\ objects[v.model].cloneOf
               = masterModels[allModelConfigs[k].modelPath]
          /\ objects[v.model].path = allModelConfigs[k].modelPath
          /\ objects[v.model].scale = allModelConfigs[k].scale

C8_Witness ==
  /\ pc = "done"
  /\ Len(viewers) = NumConfigs
  /\ settleOrder = <<3, 1, 2>>

\* C9: isLoaded implies that the viewers list has exactly one viewer per
\* model config and every viewer has a model; the animation loop is running
\* only if isLoaded is true; and isLoaded, once true, stays true.
C9_LoadedFlag ==
  /\ [](isLoaded =>
          /\ Len(viewers) = NumConfigs
          /\ \A k \in 1..Len(viewers) :
               /\ threeViewers[viewers[k]].config = k
               /\ threeViewers[viewers[k]].model # 0)
  /\ []((rafPending # {} \/ animateId # 0) => isLoaded)
  /\ [][isLoaded => isLoaded']_vars

C9_Witness ==
  /\ isLoaded
  /\ rafPending # {}
  /\ frames >= 1
  /\ destroyed

\* C10: no ThreeViewer is constructed, and no canvas is appended to a
\* container, before the Three.js availability check has resolved and
\* every distinct model load has settled, by success or by fallback.
C10_ViewersAfterLoads ==
  (threeViewers # <<>> \/ \E c \in DOMAIN containers : containers[c] # {}) =>
    /\ checkResolved
    /\ globalsReady
    /\ \A p \in ConfigPaths :
         \E i \in 1..Len(loads) :
           /\ loads[i].path = p
           /\ loads[i].state = "resolved"
           /\ loads[i].event \in {"success", "error"}
    /\ \A i \in 1..Len(loads) : loads[i].state = "resolved"

C10_Witness ==
  /\ Len(threeViewers) = NumConfigs
  /\ polls >= 1
  /\ \E i \in 1..Len(loads) : loads[i].event = "error"
  /\ \E c \in DOMAIN containers : containers[c] # {}

\* C11: with the globals eventually available, every load eventually
\* reporting and at least as many containers as configs, initialisation
\* completes unless the component is destroyed: eventually isLoaded is true
\* and the animation loop is running.  While the availability check has
\* not resolved exactly one 50 ms timer is outstanding, none afterwards,
\* and resolve() is called exactly once.
C11_InitEventuallyCompletes ==
  /\ <>(destroyed \/ nContainers < NumConfigs
                    \/ (isLoaded /\ rafPending # {}))
  /\ <>(destroyed \/ resolveCalls = 1)
  /\ [](resolveCalls <= 1)
  /\ [](checkResolved <=> resolveCalls = 1)
  /\ [](pollPending <=> (pc # "idle" /\ ~checkResolved))
  /\ [][polls' # polls => (~globalsReady /\ pollPending /\ pollPending')]_vars

C11_Witness ==
  /\ isLoaded
  /\ rafPending # {}
  /\ ~destroyed
  /\ polls = MaxPolls
  /\ resolveCalls = 1
  /\ ~pollPending

\* C12: constructing a ThreeViewer appends exactly one canvas, its own, to
\* its container and dispose() removes it: in every reachable state a
\* container holds the canvas of a viewer if and only if that viewer has
\* been constructed for it and not yet disposed, and it never holds more
\* than one.  Calling dispose() on a disposed viewer changes nothing and
\* does not throw.
C12_OneCanvasPerContainer ==
  /\ [](\A c \in DOMAIN containers :
          /\ Cardinality(containers[c]) <= 1
          /\ \A v \in containers[c] :
               /\ v \in 1..Len(threeViewers)
               /\ threeViewers[v].container = c
               /\ ~threeViewers[v].disposed)
  /\ [](\A v \in 1..Len(threeViewers) :
          /\ threeViewers[v].container \in DOMAIN containers
          /\ ~threeViewers[v].disposed =>
               v \in containers[threeViewers[v].container]
          /\ threeViewers[v].disposed =>
               Dispose(v, threeViewers, containers)
                 = [tvs |-> threeViewers, cont |-> containers,
                    threw |-> FALSE])
  /\ [][\A v \in 1..Len(threeViewers') :
          v > Len(threeViewers) =>
            containers'[threeViewers'[v].container]
              = containers[threeViewers'[v].container] \cup {v}]_vars

C12_Witness ==
  /\ destroyed
  /\ Len(threeViewers) = NumConfigs
  /\ \A v \in 1..Len(threeViewers) : threeViewers[v].disposed
  /\ \A c \in DOMAIN containers : containers[c] = {}
  /\ nContainers > NumConfigs

\* C13: while the component's listener is registered, a window resize event
\* calls handleResize() exactly once on every viewer of the viewers list
\* and on no other; a resize arriving while the list is empty changes no
\* state of the component; and ngOnDestroy removes the listener, so that
\* afterwards no resize event invokes handleResize() on any viewer, in
\* particular never on a disposed one.
C13_ResizeReachesListedViewers ==
  /\ [](destroyed => ResizeListener \notin windowListeners)
  /\ [][resizeEvents' # resizeEvents =>
          /\ Len(threeViewers') = Len(threeViewers)
          /\ \A v \in 1..Len(threeViewers) :
               threeViewers'[v].resizes
                 = threeViewers[v].resizes
                     + (IF /\ ResizeListener \in windowListeners
                           /\ \E k \in 1..Len(viewers) : viewers[k] = v
                          THEN 1 ELSE 0)
          /\ viewers = <<>> =>
               UNCHANGED <<globalsReady, nContainers, pc, checkResolved,
                           pollPending, polls, resolveCalls, loads,
                           settleOrder, objects, masterModels, threeViewers,
                           containers, viewers, isLoaded, animateId,
                           rafPending, nextRafId, frames, destroyed,
                           rendered, windowListeners>>]_vars
  /\ [][\A v \in 1..Len(threeViewers) :
          threeViewers'[v].resizes # threeViewers[v].resizes =>
            /\ resizeEvents' # resizeEvents
            /\ ~destroyed
            /\ ~threeViewers[v].disposed]_vars

C13_Witness ==
  /\ destroyed
  /\ resizeEvents >= 2
  /\ Len(viewers) = NumConfigs
  /\ \A k \in 1..Len(viewers) :
       /\ threeViewers[viewers[k]].resizes = 1
       /\ threeViewers[viewers[k]].disposed

====
